---- MODULE Spec2Model ----
(***************************************************************************)
(* The chat server of ymarco/chatserver-go: the Hub (server/Hub.go) and    *)
(* the per-connection handler (server/ClientHandler.go, first draft of the *)
(* file, lines 1-221).                                                     *)
(*                                                                         *)
(* One connection is one goroutine running Hub.HandleNewConnection.  The   *)
(* goroutines it starts (one per dispatched input line, one per message    *)
(* taken from the inbox, one per recipient of a broadcast) are modelled as *)
(* their own small state machines.  A step of the model is what a          *)
(* goroutine does between two points where another goroutine can observe   *)
(* or change shared state: a critical section of a Hub lock, a channel     *)
(* operation, a write on the stream.                                       *)
(*                                                                         *)
(* An unrecovered panic in any goroutine ends the Go process and with it   *)
(* the Hub, the handlers and every goroutine: the variable panic records   *)
(* the panic, the other variables go back to their initial values, and no  *)
(* action is enabled any more.                                             *)
(***************************************************************************)
EXTENDS Integers, Sequences, FiniteSets, TLC

\* ---------------------------------------------------------------- bounds
\* Connections the listener accepts in one run; each runs HandleNewConnection once.
Conns == {1, 2, 3}
\* The same and one more, for the runs that need a fourth connection.
WideConns == {1, 2, 3, 4}
\* The user names and passwords clients type.
Names == {"a", "b"}
Passwords == {"p", "q"}
\* Authentication requests the server rejects in one run.
MaxRejected == 1
\* /quit commands the clients send in one run.
MaxQuits == 1
\* Chat messages the clients send in one run.
MaxBroadcasts == 1
\* The same in the runs that look at the order of two messages.
MaxOrderBroadcasts == 2
\* The client: connections it dials, errors and command frames that wait in
\* its channels.
MaxDials == 2
MaxClientErrs == 2
MaxClientCmds == 2
\* Messages the client sends in one run.
MaxMsgs == 2
\* Frames of the wire protocol: characters of an id, characters of a payload.
MaxIdLen == 2
MaxTextLen == 3

\* ---------------------------------------------------------------- constants
ActionLogin == "l"
ActionRegister == "r"

ResponseOk == "Ok"
ResponseUserAlreadyOnline == "User already online"
ResponseUsernameExists == "Username already exists"
ResponseInvalidCredentials == "Wrong username or password"
ResponseMsgFailedForSome == "Message failed to send to some users"
ResponseMsgFailedForAll == "Message failed to send to any users"
\* no response decided yet
NoResponse == "-"

NoPanic == "none"
\* the runtime panics of the Go process, by the place that raises them
NilHandlerInAuthRetry == "acceptAuthRetry: nil pointer dereference"
NilHandlerInHandleNewConnection == "HandleNewConnection: nil pointer dereference"
NilHandlerInClose == "Logout, Close: nil pointer dereference"
NilMessageInForward == "forwardMsgToUser: nil pointer dereference"
SendOnClosed == "sendMessageToClient: send on closed channel"
MakechanRange == "BroadcastMessageWithTimeout: makechan: size out of range"

\* the authentication requests clients send
AuthRequests == [authType : {ActionLogin, ActionRegister}, name : Names, password : Passwords]
\* the same, of clients that all type the one password "p"
OnePasswordRequests == {request \in AuthRequests : request.password = "p"}

\* no request in flight; no handler made
NoRequest == [authType |-> "-", name |-> "-", password |-> "-"]
NoCreds == [name |-> "-", password |-> "-"]

VARIABLES
    userDB,       \* Hub.userDB: name -> password (a function on the names stored)
    activeUsers,  \* Hub.activeUsers: name -> handler (the connection that owns it)
    panic,        \* NoPanic, or the runtime panic that ended the process
    pc,           \* per connection: where HandleNewConnection stands
    req,          \* per connection: the AuthRequest that testAuth accepted, until logClientIn
    creds,        \* per connection: handler.Creds, once newClientHandler made the handler
    resp,         \* per connection: the last authentication response decided
    nRejected,    \* authentication requests rejected so far (bounds the run)
    closed,       \* per connection: handler.Close was called (inbox and stream closed)
    errs,         \* per connection: errors waiting in handler.errs for the message loop
    quitPc,       \* per connection: the goroutine that dispatches its /quit command
    bcPc,         \* per connection: the goroutine that dispatches its chat message
    bc,           \* per connection: the locals of its BroadcastMessageWithTimeout call
    tasks,        \* per connection: recipient -> the sendMessageToClient goroutine and its message
    client,       \* one client program: where RunClient stands, its channels, its connection
    frame,        \* one line of the wire protocol, and what the parser made of it
    hubCalls      \* per caller of the Hub: the call and where it stands with the locks

hubVars == <<userDB, activeUsers>>
authVars == <<req, creds, resp, nRejected>>
bcVars == <<bcPc, bc, tasks>>
serverVars == <<userDB, activeUsers, panic, pc, req, creds, resp, nRejected, closed, errs,
                quitPc, bcPc, bc, tasks>>
vars == <<serverVars, client, frame, hubCalls>>

\* ---------------------------------------------------------------- Hub maps
EmptyMap == [n \in {} |-> 0]

MapPut(m, k, v) == [x \in (DOMAIN m) \cup {k} |-> IF x = k THEN v ELSE m[x]]

MapDelete(m, k) == [x \in (DOMAIN m) \ {k} |-> m[x]]

\* the locals of a broadcast that has not started
NoBroadcast == [total |-> 0, snapshot |-> EmptyMap, sender |-> "-", done |-> FALSE,
                errs |-> <<>>, response |-> NoResponse]

\* ---------------------------------------------------------------- Hub.testAuth
\* What testAuth is not: a Login that looks at SessionSet before the password.
testAuthOnlineFirst(db, active, request) ==
    IF request.authType = ActionLogin
    THEN IF request.name \in DOMAIN active
         THEN ResponseUserAlreadyOnline
         ELSE IF request.name \notin DOMAIN db \/ db[request.name] # request.password
              THEN ResponseInvalidCredentials
              ELSE ResponseOk
    ELSE IF request.name \in DOMAIN db
         THEN ResponseUsernameExists
         ELSE ResponseOk

\* What testAuth is not: a Register that is refused only while the name is online.
testAuthRegisterOnline(db, active, request) ==
    IF request.authType = ActionLogin
    THEN IF request.name \notin DOMAIN db \/ db[request.name] # request.password
         THEN ResponseInvalidCredentials
         ELSE IF request.name \in DOMAIN active
              THEN ResponseUserAlreadyOnline
              ELSE ResponseOk
    ELSE IF request.name \in DOMAIN active
         THEN ResponseUsernameExists
         ELSE ResponseOk

\* Hub.testAuth: one critical section under both locks.
testAuth(db, active, request) ==
    IF request.authType = ActionLogin
    THEN IF request.name \notin DOMAIN db \/ db[request.name] # request.password
         THEN ResponseInvalidCredentials
         ELSE IF request.name \in DOMAIN active
              THEN ResponseUserAlreadyOnline
              ELSE ResponseOk
    ELSE IF request.name \in DOMAIN db
         THEN ResponseUsernameExists
         ELSE ResponseOk

\* RunServer: NewHub, and connections accepted but not yet heard from.
InitHub ==
    /\ userDB = EmptyMap
    /\ activeUsers = EmptyMap
    /\ pc = [c \in WideConns |-> "auth"]
    /\ req = [c \in WideConns |-> NoRequest]
    /\ creds = [c \in WideConns |-> NoCreds]
    /\ resp = [c \in WideConns |-> NoResponse]
    /\ nRejected = 0
    /\ closed = [c \in WideConns |-> FALSE]
    /\ errs = [c \in WideConns |-> 0]
    /\ quitPc = [c \in WideConns |-> "none"]
    /\ bcPc = [c \in WideConns |-> "idle"]
    /\ bc = [c \in WideConns |-> NoBroadcast]
    /\ tasks = [c \in WideConns |-> EmptyMap]

\* The errors of the client that decide what runUntilLoggedOut returns.
ErrServerLoggedUsOut == "server logged us out"
ErrClientHasQuitExtinguished == "client has quit"
ErrEOF == "EOF"
ErrResponseForUnexpectedId == "got a response for an id we didn't send"
ErrServerTimedOut == "server timed out"
NoError == "-"

\* The ids of the messages of a run.
MsgIds == 1..MaxMsgs

\* What the user types for a name or a password: nothing, or something.
UserInputs == {"", "a"}

\* Server command frames: /quit, and one the client does not know.
LogoutCmd == "quit"
OddCmd == "odd"

\* startSession: the connection dialed, fresh channels, splitServerOutputAsync
\* started; runUntilLoggedOut is about to prompt for the credentials.
\*   pc       where the client stands: "prompt" (authenticateWithRetry asks the
\*            user), "waitAuth" (authenticate waits for the response), "session"
\*            (runUntilLoggedOut waits on errs), "reconnect" (RunClient loops),
\*            "exited" (RunClient returned), "fatal" (log.Fatalln ended the
\*            process), "panicked" (a runtime panic ended it)
\*   dials    connections dialed so far
\*   errs     the errs channel
\*   cmds     the receiveCmd channel
\*   eof      the server closed the connection and splitServerOutputAsync ended
\*   quitSent the line m<id>;/quit was written and the server has not answered it
\*   last     the error that ended the last session
\*   pending  the ids that have an entry in the table of expected responses
\*   waiters  the ids whose expectResponseFromChanWithTimeout goroutine runs
\*   inflight the ids of the messages the server has yet to answer
\*   acked    the ids whose response waits in the entry's channel
\*   globalID the counter of getUniqueID, a variable of the process
\*   ids      the ids getUniqueID returned so far, each with the connection
\*            during which it was asked for
startSession(dials) ==
    [pc |-> "prompt", dials |-> dials, errs |-> <<>>, cmds |-> <<>>, eof |-> FALSE,
     quitSent |-> FALSE, last |-> NoError,
     pending |-> {}, waiters |-> {}, inflight |-> {}, acked |-> {},
     globalID |-> 0, ids |-> <<>>]

\* No line under the parser.
NoFrame == [stage |-> "none"]

\* The callers of the Hub, and where a call stands with the Hub's two locks.
Callers == {1, 2, 3}
NoCall == [op |-> "none", at |-> "idle"]
NoCalls == [g \in Callers |-> NoCall]

Init ==
    /\ InitHub /\ panic = NoPanic /\ client = startSession(1) /\ frame = NoFrame
    /\ hubCalls = NoCalls

Running == panic = NoPanic

\* An unrecovered panic: the process is gone.
Panics(message) ==
    /\ panic' = message
    /\ userDB' = EmptyMap
    /\ activeUsers' = EmptyMap
    /\ pc' = [c \in WideConns |-> "auth"]
    /\ req' = [c \in WideConns |-> NoRequest]
    /\ creds' = [c \in WideConns |-> NoCreds]
    /\ resp' = [c \in WideConns |-> NoResponse]
    /\ nRejected' = 0
    /\ closed' = [c \in WideConns |-> FALSE]
    /\ errs' = [c \in WideConns |-> 0]
    /\ quitPc' = [c \in WideConns |-> "none"]
    /\ bcPc' = [c \in WideConns |-> "idle"]
    /\ bc' = [c \in WideConns |-> NoBroadcast]
    /\ tasks' = [c \in WideConns |-> EmptyMap]
    /\ client' = client
    /\ frame' = frame
    /\ hubCalls' = hubCalls

\* ---------------------------------------------------------------- authentication
\* What TryToAuthenticate is not: one that stores the password of a request it
\* refuses.
AcceptAuthRequestStores(c, request, writeOk) ==
    /\ Running
    /\ pc[c] = "auth"
    /\ writeOk
    /\ nRejected < MaxRejected
    /\ testAuth(userDB, activeUsers, request) # ResponseOk
    /\ resp' = [resp EXCEPT ![c] = testAuth(userDB, activeUsers, request)]
    /\ nRejected' = nRejected + 1
    /\ userDB' = MapPut(userDB, request.name, request.password)
    /\ UNCHANGED <<client, frame, hubCalls, activeUsers, panic, pc, req, creds, closed, errs,
                   quitPc, bcVars>>

\* acceptAuthRetry, one turn of its loop: acceptAuthRequest reads the three lines,
\* TryToAuthenticate calls testAuth (one critical section of both locks).  A
\* response other than Ok is written to the stream and the loop turns again; if
\* that write fails the log line dereferences the nil handler.
AcceptAuthRequest(c, request, writeOk) ==
    /\ Running
    /\ pc[c] = "auth"
    /\ LET response == testAuth(userDB, activeUsers, request)
       IN IF response = ResponseOk
          THEN /\ writeOk
               /\ req' = [req EXCEPT ![c] = request]
               /\ resp' = [resp EXCEPT ![c] = response]
               /\ pc' = [pc EXCEPT ![c] = "tested"]
               /\ UNCHANGED <<client, frame, hubCalls, hubVars, panic, creds, nRejected, closed, errs, quitPc, bcVars>>
          ELSE /\ nRejected < MaxRejected
               /\ IF writeOk
                  THEN /\ resp' = [resp EXCEPT ![c] = response]
                       /\ nRejected' = nRejected + 1
                       /\ UNCHANGED <<client, frame, hubCalls, hubVars, panic, pc, req, creds, closed, errs, quitPc, bcVars>>
                  ELSE Panics(NilHandlerInAuthRetry)

\* What the EOF of acceptAuthRequest is not: an error that HandleNewConnection
\* logs like any other, with the name of the handler it did not get.
AuthClientQuitLogged(c) ==
    /\ Running
    /\ pc[c] = "auth"
    /\ Panics(NilHandlerInHandleNewConnection)

\* acceptAuthRequest returns io.EOF (the client hung up before or while choosing):
\* acceptAuthRetry returns ErrClientHasQuit and HandleNewConnection returns quietly.
AuthClientQuit(c) ==
    /\ Running
    /\ pc[c] = "auth"
    /\ pc' = [pc EXCEPT ![c] = "done"]
    /\ UNCHANGED <<client, frame, hubCalls, hubVars, authVars, panic, closed, errs, quitPc, bcVars>>

\* strToAuthAction's default case (a first line that is neither l nor r) returns an
\* error that is not io.EOF; acceptAuthRetry returns (nil, err) and the log line of
\* HandleNewConnection reads handler.Creds of the nil handler.
AuthWeirdAction(c) ==
    /\ Running
    /\ pc[c] = "auth"
    /\ Panics(NilHandlerInHandleNewConnection)

\* Hub.logClientIn: the second critical section of TryToAuthenticate.  It stores the
\* password and the handler under the name whatever the maps hold by now.  Then
\* acceptAuthRetry writes r;Ok; if that write fails HandleNewConnection returns
\* before it has deferred Logout.
logClientIn(c, writeOk) ==
    /\ Running
    /\ pc[c] = "tested"
    /\ creds' = [creds EXCEPT ![c] = [name |-> req[c].name, password |-> req[c].password]]
    /\ req' = [req EXCEPT ![c] = NoRequest]
    /\ userDB' = MapPut(userDB, req[c].name, req[c].password)
    /\ activeUsers' = MapPut(activeUsers, req[c].name, c)
    /\ pc' = [pc EXCEPT ![c] = IF writeOk THEN "loggedIn" ELSE "done"]
    /\ UNCHANGED <<client, frame, hubCalls, resp, nRejected, panic, closed, errs, quitPc, bcVars>>

\* ---------------------------------------------------------------- Hub.Logout
\* ClientHandler.Close: close(handler.SendMsg) and handler.conn.Close().
Close(cl, handler) == [cl EXCEPT ![handler] = TRUE]

\* Hub.Logout(name) with no entry under the name: the map yields a nil
\* *ClientHandler, ClosePrintErr calls Close on it and Close dereferences it.
LogoutPanics(active, name) == name \notin DOMAIN active

\* What Logout is not: a Logout that closes the handler and keeps the entry.
LogoutKeepsEntry(name) ==
    /\ closed' = Close(closed, activeUsers[name])
    /\ activeUsers' = activeUsers

\* Hub.Logout(name) with an entry: closes whatever handler the map holds under the
\* name, then deletes the entry.
Logout(name) ==
    /\ closed' = Close(closed, activeUsers[name])
    /\ activeUsers' = MapDelete(activeUsers, name)

\* ---------------------------------------------------------------- the message loop
\* handler.errs <- err in a goroutine of the handler.  The channel holds 128 errors,
\* so the send does not block; once handleMessagesLoop has returned nobody receives
\* from the channel and the error is lost.
PostError(c) ==
    IF pc[c] = "loggedIn" THEN [errs EXCEPT ![c] = @ + 1] ELSE errs

\* handleMessagesLoop returns: the reader delivered an error (the client hung up,
\* or the stream was closed by Close), or an error was taken from handler.errs.
\* HandleNewConnection then runs its deferred hub.Logout.
HandlerExit(c, clientHungUp) ==
    /\ Running
    /\ pc[c] = "loggedIn"
    /\ clientHungUp \/ closed[c] \/ errs[c] > 0
    /\ IF LogoutPanics(activeUsers, creds[c].name)
       THEN Panics(NilHandlerInClose)
       ELSE /\ Logout(creds[c].name)
            /\ pc' = [pc EXCEPT ![c] = "done"]
            /\ errs' = [errs EXCEPT ![c] = 0]
            /\ UNCHANGED <<client, frame, hubCalls, userDB, authVars, panic, quitPc, bcVars>>

\* handleMessagesLoop takes the receive on handler.pendingMsgs after Close closed
\* the channel: the message is nil and forwardMsgToUser dereferences it.
LoopReceivesFromClosedInbox(c) ==
    /\ Running
    /\ pc[c] = "loggedIn"
    /\ closed[c]
    /\ Panics(NilMessageInForward)

\* ---------------------------------------------------------------- the /quit command
\* handleMessagesLoop reads the line m<id>;/quit and dispatchUserInputAsync starts
\* the goroutine that will run dispatchUserInput on it.
DispatchQuit(c) ==
    /\ Running
    /\ pc[c] = "loggedIn"
    /\ quitPc[c] = "none"
    /\ Cardinality({d \in WideConns : quitPc[d] # "none"}) < MaxQuits
    /\ quitPc' = [quitPc EXCEPT ![c] = "spawned"]
    /\ UNCHANGED <<client, frame, hubCalls, hubVars, authVars, panic, pc, closed, errs, bcVars>>

\* dispatchUserInput of a command: forwardResponseToUser(id, ResponseOk); a failed
\* write is returned and posted on handler.errs.
QuitRespond(c) ==
    /\ Running
    /\ quitPc[c] = "spawned"
    /\ IF closed[c]
       THEN /\ errs' = PostError(c)
            /\ quitPc' = [quitPc EXCEPT ![c] = "done"]
       ELSE /\ errs' = errs
            /\ quitPc' = [quitPc EXCEPT ![c] = "responded"]
    /\ UNCHANGED <<client, frame, hubCalls, hubVars, authVars, panic, pc, closed, bcVars>>

\* runUserCommand(LogoutCmd), first half: handler.hub.Logout.
QuitLogout(c) ==
    /\ Running
    /\ quitPc[c] = "responded"
    /\ IF LogoutPanics(activeUsers, creds[c].name)
       THEN Panics(NilHandlerInClose)
       ELSE /\ Logout(creds[c].name)
            /\ quitPc' = [quitPc EXCEPT ![c] = "loggedOut"]
            /\ UNCHANGED <<client, frame, hubCalls, userDB, authVars, panic, pc, errs, bcVars>>

\* runUserCommand(LogoutCmd), second half: forwardCmdToUser writes /quit; on a
\* closed stream the write fails and the error is posted on handler.errs.
QuitForwardCmd(c) ==
    /\ Running
    /\ quitPc[c] = "loggedOut"
    /\ errs' = IF closed[c] THEN PostError(c) ELSE errs
    /\ quitPc' = [quitPc EXCEPT ![c] = "done"]
    /\ UNCHANGED <<client, frame, hubCalls, hubVars, authVars, panic, pc, closed, bcVars>>

\* ---------------------------------------------------------------- broadcast
\* handleMessagesLoop reads a line m<id>;<text> whose text is no command and
\* dispatchUserInputAsync starts the goroutine that will run dispatchUserInput on it.
DispatchBroadcastUpTo(c, max) ==
    /\ Running
    /\ pc[c] = "loggedIn"
    /\ bcPc[c] = "idle"
    /\ Cardinality({d \in WideConns : bcPc[d] # "idle"}) < max
    /\ bcPc' = [bcPc EXCEPT ![c] = "spawned"]
    /\ UNCHANGED <<client, frame, hubCalls, hubVars, authVars, panic, pc, closed, errs, quitPc, bc, tasks>>

DispatchBroadcast(c) == DispatchBroadcastUpTo(c, MaxBroadcasts)

\* BroadcastMessageWithTimeout: totalToSendTo := len(hub.activeUsers) - 1.
totalToSendTo(active) == Cardinality(DOMAIN active) - 1

\* BroadcastMessageWithTimeout, the range loop: one sendMessageToClient goroutine
\* for every handler of the map whose name is not the sender's.
Recipients(active, sender) == {active[n] : n \in (DOMAIN active) \ {sender}}

\* sendMessageToClient just started: the message is made, nothing is sent yet.
\* behind: the senders whose messages the recipient's loop had taken from the
\* inbox, and not yet written, when it took this one.
NewTask == [st |-> "sending", msg |-> "new", lines |-> 0, behind |-> {}]

\* BroadcastMessageWithTimeout under the read lock of activeUsers: the count, the
\* early return, make(chan error, totalToSendTo), the goroutines.
BroadcastSnapshot(c) ==
    /\ Running
    /\ bcPc[c] = "spawned"
    /\ LET total == totalToSendTo(activeUsers)
           sender == creds[c].name
       IN IF total < 0
          THEN Panics(MakechanRange)
          ELSE /\ IF total = 0
                  THEN /\ bcPc' = [bcPc EXCEPT ![c] = "returned"]
                       /\ bc' = [bc EXCEPT ![c] = [total |-> total, snapshot |-> activeUsers,
                                                   sender |-> sender, done |-> FALSE,
                                                   errs |-> <<>>, response |-> ResponseOk]]
                       /\ tasks' = tasks
                  ELSE /\ bcPc' = [bcPc EXCEPT ![c] = "waiting"]
                       /\ bc' = [bc EXCEPT ![c] = [total |-> total, snapshot |-> activeUsers,
                                                   sender |-> sender, done |-> FALSE,
                                                   errs |-> <<>>, response |-> NoResponse]]
                       /\ tasks' = [tasks EXCEPT ![c] =
                                      [r \in Recipients(activeUsers, sender) |-> NewTask]]
               /\ UNCHANGED <<client, frame, hubCalls, hubVars, authVars, panic, pc, closed, errs, quitPc>>

\* A sendMessageToClient goroutine that has returned, and whose message no
\* goroutine holds any more, is gone.
Live(t) == t.st \in {"sending", "waiting"} \/ t.msg = "taken"

\* The goroutines of a broadcast that are still there; until the response of the
\* broadcast is written all of them are kept.
Remaining(c, ts) ==
    IF bcPc[c] = "done" THEN [r \in {x \in DOMAIN ts : Live(ts[x])} |-> ts[r]] ELSE ts

\* errs <- result in a sendMessageToClient goroutine: the counting loop receives it
\* if BroadcastMessageWithTimeout has not returned.
Report(c, result) ==
    IF bcPc[c] = "waiting" THEN [bc EXCEPT ![c].errs = Append(@, result)] ELSE bc

\* context.WithTimeout: MsgSendTimeout has passed, ctx.Done() is closed.
DeadlineFires(c) ==
    /\ Running
    /\ bcPc[c] = "waiting"
    /\ ~bc[c].done
    /\ bc' = [bc EXCEPT ![c].done = TRUE]
    /\ UNCHANGED <<client, frame, hubCalls, hubVars, authVars, panic, pc, closed, errs, quitPc, bcPc, tasks>>

\* The senders whose messages the loop of r took from the inbox and whose
\* forwardMsgToUser goroutine has not written yet.
TakenBy(r) == {d \in WideConns : r \in DOMAIN tasks[d] /\ tasks[d][r].msg = "taken"}

\* What the receiving side is not: a handler whose message loop runs
\* dispatchUserInput itself and takes nothing from its inbox until the broadcast
\* of its own line has been answered.
TaskSendsToIdleLoop(c, r) ==
    /\ Running
    /\ r \in DOMAIN tasks[c]
    /\ tasks[c][r].st = "sending"
    /\ pc[r] = "loggedIn"
    /\ ~closed[r]
    /\ bcPc[r] \in {"idle", "done"}
    /\ tasks' = [tasks EXCEPT ![c][r] = [st |-> "waiting", msg |-> "taken", lines |-> 0,
                                         behind |-> TakenBy(r)]]
    /\ UNCHANGED <<client, frame, hubCalls, hubVars, authVars, panic, pc, closed, errs, quitPc,
                   bcPc, bc>>

\* sendMessageToClient, first select, case recipient.SendMsg <- msg: the channel
\* is unbuffered, the send meets the receive of the recipient's handleMessagesLoop,
\* which starts forwardMsgToUserAsync.
TaskSends(c, r) ==
    /\ Running
    /\ r \in DOMAIN tasks[c]
    /\ tasks[c][r].st = "sending"
    /\ pc[r] = "loggedIn"
    /\ ~closed[r]
    /\ tasks' = [tasks EXCEPT ![c][r] = [st |-> "waiting", msg |-> "taken", lines |-> 0,
                                         behind |-> TakenBy(r)]]
    /\ UNCHANGED <<client, frame, hubCalls, hubVars, authVars, panic, pc, closed, errs, quitPc, bcPc, bc>>

\* sendMessageToClient, first select, the send case on a channel that Close closed.
TaskSendsOnClosed(c, r) ==
    /\ Running
    /\ r \in DOMAIN tasks[c]
    /\ tasks[c][r].st = "sending"
    /\ closed[r]
    /\ Panics(SendOnClosed)

\* forwardMsgToUser in the recipient's goroutine: write m<sender>: <content>, then
\* signal completion; a failed write is posted on handler.errs and nothing is signalled.
ForwardMsgToUser(c, r) ==
    /\ Running
    /\ r \in DOMAIN tasks[c]
    /\ tasks[c][r].msg = "taken"
    /\ IF closed[r]
       THEN /\ tasks' = [tasks EXCEPT ![c] =
                           Remaining(c, [tasks[c] EXCEPT ![r].msg = "failed"])]
            /\ errs' = PostError(r)
       ELSE /\ tasks' = [tasks EXCEPT ![c] =
                           Remaining(c, [tasks[c] EXCEPT ![r].msg = "written",
                                                         ![r].lines = @ + 1])]
            /\ errs' = errs
    /\ UNCHANGED <<client, frame, hubCalls, hubVars, authVars, panic, pc, closed, quitPc, bcPc, bc>>

\* sendMessageToClient, second select, case <-msg.finished: returns nil into errs.
TaskSucceeds(c, r) ==
    /\ Running
    /\ r \in DOMAIN tasks[c]
    /\ tasks[c][r].st = "waiting"
    /\ tasks[c][r].msg = "written"
    /\ tasks' = [tasks EXCEPT ![c] = Remaining(c, [tasks[c] EXCEPT ![r].st = "ok"])]
    /\ bc' = Report(c, TRUE)
    /\ UNCHANGED <<client, frame, hubCalls, hubVars, authVars, panic, pc, closed, errs, quitPc, bcPc>>

\* ctx.Done() of the broadcast of c is closed: the deadline fired (bc[c].done),
\* or BroadcastMessageWithTimeout returned and its deferred cancel() ran.
CtxDone(c) == bc[c].done \/ bcPc[c] = "returned"

\* sendMessageToClient, either select, case <-ctx.Done(): returns ctx.Err() into errs.
TaskCancelled(c, r) ==
    /\ Running
    /\ r \in DOMAIN tasks[c]
    /\ tasks[c][r].st \in {"sending", "waiting"}
    /\ CtxDone(c)
    /\ tasks' = [tasks EXCEPT ![c] = Remaining(c, [tasks[c] EXCEPT ![r].st = "err"])]
    /\ bc' = Report(c, FALSE)
    /\ UNCHANGED <<client, frame, hubCalls, hubVars, authVars, panic, pc, closed, errs, quitPc, bcPc>>

\* BroadcastMessageWithTimeout, the counting loop: totalToSendTo receives from errs.
succeeded(results, total) == Cardinality({i \in 1..total : results[i]})

\* What the final if is not: one that knows no partial failure.
BroadcastResponseAllOrNothing(succ, total) ==
    IF succ = 0 THEN ResponseMsgFailedForAll ELSE ResponseOk

\* BroadcastMessageWithTimeout, the final if.
BroadcastResponse(succ, total) ==
    IF succ = 0 THEN ResponseMsgFailedForAll
    ELSE IF succ < total THEN ResponseMsgFailedForSome
    ELSE ResponseOk

\* BroadcastMessageWithTimeout returns once totalToSendTo results were received;
\* the deferred cancel() closes ctx.Done() (see CtxDone).
BroadcastReturns(c) ==
    /\ Running
    /\ bcPc[c] = "waiting"
    /\ Len(bc[c].errs) >= bc[c].total
    /\ bcPc' = [bcPc EXCEPT ![c] = "returned"]
    /\ bc' = [bc EXCEPT ![c].response =
                           BroadcastResponse(succeeded(bc[c].errs, bc[c].total), bc[c].total)]
    /\ UNCHANGED <<client, frame, hubCalls, hubVars, authVars, panic, pc, closed, errs, quitPc, tasks>>

\* the locals of a broadcast whose dispatchUserInput has returned: only the
\* cancelled context is still seen, by the goroutines that have not returned
Returned == [NoBroadcast EXCEPT !.done = TRUE]

\* dispatchUserInput of a chat message, after the broadcast:
\* forwardResponseToUser(id, response); a failed write is posted on handler.errs.
\* The goroutine ends here.
BroadcastRespond(c) ==
    /\ Running
    /\ bcPc[c] = "returned"
    /\ bcPc' = [bcPc EXCEPT ![c] = "done"]
    /\ errs' = IF closed[c] THEN PostError(c) ELSE errs
    /\ bc' = [bc EXCEPT ![c] = Returned]
    /\ tasks' = [tasks EXCEPT ![c] =
                   [r \in {x \in DOMAIN tasks[c] : Live(tasks[c][x])} |-> tasks[c][r]]]
    /\ UNCHANGED <<client, frame, hubCalls, hubVars, authVars, panic, pc, closed, quitPc>>

\* ---------------------------------------------------------------- the client
\* errs <- err in a goroutine of the client; the runs stay within MaxClientErrs
\* waiting errors (the channel holds 128).
PostClientError(err) ==
    /\ Len(client.errs) < MaxClientErrs
    /\ client' = [client EXCEPT !.errs = Append(@, err)]
    /\ UNCHANGED <<serverVars, frame, hubCalls>>

\* No credentials: the nil *UserCredentials.
NilCreds == [name |-> "", password |-> ""]

\* promptForUsernameAndPassword: an empty name or an empty password gives
\* (nil, ErrEmptyUsernameOrPassword).
promptForUsernameAndPassword(name, password) ==
    IF name = "" \/ password = "" THEN NilCreds ELSE [name |-> name, password |-> password]

\* authenticateWithRetry, one turn: the user typed r or l, then a name and a
\* password.  promptForAuthTypeAndUser drops the error of
\* promptForUsernameAndPassword and returns its credentials with a nil error, so
\* authenticate is called also with nil credentials and dereferences them.  Else
\* authenticate writes the three lines; the write fails only on a connection
\* that is gone, and runUntilLoggedOut then ends in log.Fatalln.
ClientAuthenticate(name, password, writeOk) ==
    /\ client.pc = "prompt"
    /\ writeOk \/ client.eof
    /\ LET me == promptForUsernameAndPassword(name, password)
       IN client' = [client EXCEPT !.pc = IF me = NilCreds THEN "panicked"
                                          ELSE IF writeOk THEN "waitAuth" ELSE "fatal"]
    /\ UNCHANGED <<serverVars, frame, hubCalls>>

\* ChooseLoginOrRegister: the user's input ended; authenticateWithRetry returns
\* ErrClientHasQuitExtinguished, which is not io.EOF, and runUntilLoggedOut ends
\* in log.Fatalln.
UserQuitsAtPrompt ==
    /\ client.pc = "prompt"
    /\ client' = [client EXCEPT !.pc = "fatal"]
    /\ UNCHANGED <<serverVars, frame, hubCalls>>

\* authenticate, case sResponse := <-client.receiveResponse: Ok starts the
\* session, any other answer makes authenticateWithRetry prompt again.
AuthAnswered(ok) ==
    /\ client.pc = "waitAuth"
    /\ ~client.eof
    /\ client' = [client EXCEPT !.pc = IF ok THEN "session" ELSE "prompt"]
    /\ UNCHANGED <<serverVars, frame, hubCalls>>

\* authenticate, case err := <-client.errs: on io.EOF runUntilLoggedOut returns
\* (true, true) and the prompt runs again; any other error ends in log.Fatalln.
AuthTakesErr ==
    /\ client.pc = "waitAuth"
    /\ client.errs # <<>>
    /\ client' = [client EXCEPT !.pc = IF Head(client.errs) = ErrEOF THEN "prompt" ELSE "fatal",
                                !.errs = Tail(@)]
    /\ UNCHANGED <<serverVars, frame, hubCalls>>

\* The empty MsgID, with which the second draft of dispatchCmd sends /quit.
EmptyId == 0

\* authenticate, case sResponse := <-client.receiveResponse, when the frame in
\* the buffered channel is the response to a message or command that the client
\* sent in the session before: the id is ignored.  The payload Ok starts a
\* session; a payload that no authentication gives is ErrOddOutput and
\* runUntilLoggedOut ends in log.Fatalln.
AuthTakesLeftover(id, ok) ==
    /\ client.pc = "waitAuth"
    /\ id \in client.inflight
    /\ client' = [client EXCEPT !.pc = IF ok THEN "session" ELSE "fatal",
                                !.inflight = @ \ {id}]
    /\ UNCHANGED <<serverVars, frame, hubCalls>>

\* dispatchCmd(QuitCmd) of the second draft: m;/quit is written with the empty
\* id, no response is awaited, and client.relog makes runUntilLoggedOut return
\* RetryActionShouldOnlyRelog: the prompt runs again on the same connection.
dispatchCmd ==
    /\ client.pc = "session"
    /\ ~client.eof
    /\ client' = [client EXCEPT !.pc = "prompt", !.inflight = @ \cup {EmptyId}]
    /\ UNCHANGED <<serverVars, frame, hubCalls>>

\* authenticate, case sResponse := <-client.receiveResponse after
\* splitServerOutputAsync ended and closed the channel: the receive yields the
\* zero response, authenticate returns ErrOddOutput and runUntilLoggedOut ends in
\* log.Fatalln.
AuthReadsClosedResponses ==
    /\ client.pc = "waitAuth"
    /\ client.eof
    /\ client' = [client EXCEPT !.pc = "fatal"]
    /\ UNCHANGED <<serverVars, frame, hubCalls>>

\* What getUniqueID is not: a counter that starts again with every connection.
getUniqueIDPerConnection(cl) ==
    Cardinality({i \in DOMAIN cl.ids : cl.ids[i].dial = cl.dials}) + 1

\* getUniqueID: atomic.AddInt64(&globalID, 1), one indivisible step on the
\* counter of the process.
getUniqueID(cl) == cl.globalID + 1

\* sendMsgExpectAsyncResponse: a fresh id, its entry in the table of expected
\* responses, the line m<id>;<text> written, the waiter goroutine started.
sendMsgExpectAsyncResponse(cl) ==
    LET id == getUniqueID(cl)
    IN [cl EXCEPT !.globalID = cl.globalID + 1,
                  !.ids = Append(@, [id |-> id, dial |-> cl.dials]),
                  !.pending = @ \cup {id},
                  !.waiters = @ \cup {id},
                  !.inflight = @ \cup {id}]

\* sendMsgsLoop: the user typed a line of chat.
UserTypesLine ==
    /\ client.pc = "session"
    /\ ~client.eof
    /\ Len(client.ids) < MaxMsgs
    /\ client' = sendMsgExpectAsyncResponse(client)
    /\ UNCHANGED <<serverVars, frame, hubCalls>>

\* The error of a failed conn.Write in sendMsgWithTimeout.
ErrWrite == "write failed"

\* sendMsgExpectAsyncResponse when sendMsgWithTimeout fails: the id was issued and
\* its entry inserted; the error is posted on errs and no waiter is started.
SendFails ==
    /\ client.pc = "session"
    /\ Len(client.ids) < MaxMsgs
    /\ Len(client.errs) < MaxClientErrs
    /\ LET id == getUniqueID(client)
       IN client' = [client EXCEPT !.globalID = client.globalID + 1,
                                   !.ids = Append(@, [id |-> id, dial |-> client.dials]),
                                   !.pending = @ \cup {id},
                                   !.errs = Append(@, ErrWrite)]
    /\ UNCHANGED <<serverVars, frame, hubCalls>>

\* sendMsgsLoop: the user typed /quit; sendMsgExpectAsyncResponse writes m<id>;/quit.
UserTypesQuit ==
    /\ client.pc = "session"
    /\ ~client.eof
    /\ ~client.quitSent
    /\ Len(client.ids) < MaxMsgs
    /\ client' = [sendMsgExpectAsyncResponse(client) EXCEPT !.quitSent = TRUE]
    /\ UNCHANGED <<serverVars, frame, hubCalls>>

\* handleResponsesLoop takes the response frame r<id>;... of a message the client
\* sent; handleIncomingResponse hands it to the entry of the id (the channel
\* holds one response and gets one), or, with no entry under the id, posts
\* ErrResponseForUnexpectedId on errs.
ResponseArrives(id) ==
    /\ client.pc = "session"
    /\ id \in client.inflight
    /\ IF id \in client.pending
       THEN client' = [client EXCEPT !.inflight = @ \ {id}, !.acked = @ \cup {id}]
       ELSE /\ Len(client.errs) < MaxClientErrs
            /\ client' = [client EXCEPT !.inflight = @ \ {id},
                                        !.errs = Append(@, ErrResponseForUnexpectedId)]
    /\ UNCHANGED <<serverVars, frame, hubCalls>>

\* What the timeout case of the waiter is not: one that reports the timeout.
afterAckTimeoutPosts(errors) == Append(errors, ErrServerTimedOut)

\* expectResponseFromChanWithTimeout, case <-time.After(MsgAckTimeout): the
\* timeout is logged; "skip err, i.e don't send it to client.errs".
afterAckTimeout(errors) == errors

\* expectResponseFromChanWithTimeout: MsgAckTimeout passes before a response is
\* in the channel of the entry; the waiter logs, removes the entry and ends.
AckTimeout(id) ==
    /\ id \in client.waiters
    /\ id \notin client.acked
    /\ client' = [client EXCEPT !.waiters = @ \ {id}, !.pending = @ \ {id},
                                !.errs = afterAckTimeout(@)]
    /\ UNCHANGED <<serverVars, frame, hubCalls>>

\* expectResponseFromChanWithTimeout, case response := <-ack: the waiter takes
\* the response, removes the entry and ends.
WaiterGetsResponse(id) ==
    /\ id \in client.waiters
    /\ id \in client.acked
    /\ client' = [client EXCEPT !.waiters = @ \ {id}, !.pending = @ \ {id},
                                !.acked = @ \ {id}]
    /\ UNCHANGED <<serverVars, frame, hubCalls>>

\* splitServerOutputAsync reads a command frame of the server: the frame /quit
\* that answers the client's /quit, or a frame the client does not know.
SplitReadsCmd(cmd) ==
    /\ ~client.eof
    /\ Len(client.cmds) < MaxClientCmds
    /\ cmd = LogoutCmd => client.quitSent
    /\ client' = [client EXCEPT !.cmds = Append(@, cmd),
                                !.quitSent = IF cmd = LogoutCmd THEN FALSE ELSE @]
    /\ UNCHANGED <<serverVars, frame, hubCalls>>

\* splitServerOutputAsync: ScanLine fails because the server closed the
\* connection; errs <- err and the goroutine ends.
SplitReadsEOF ==
    /\ ~client.eof
    /\ Len(client.errs) < MaxClientErrs
    /\ client' = [client EXCEPT !.errs = Append(@, ErrEOF), !.eof = TRUE]
    /\ UNCHANGED <<serverVars, frame, hubCalls>>

\* Client.runCmd: the error, if any, that a command frame puts on errs.
runCmd(cmd) == IF cmd = LogoutCmd THEN ErrServerLoggedUsOut ELSE NoError

\* receiveServerCmdsLoop: takes a command from receiveCmd and runs runCmd on it.
ReceiveServerCmd ==
    /\ client.pc = "session"
    /\ client.cmds # <<>>
    /\ Len(client.errs) < MaxClientErrs
    /\ client' = [client EXCEPT !.cmds = Tail(@),
                                !.errs = IF runCmd(Head(client.cmds)) = NoError
                                         THEN @ ELSE Append(@, runCmd(Head(client.cmds)))]
    /\ UNCHANGED <<serverVars, frame, hubCalls>>

\* sendMsgsLoop: the user's input ended, errs <- ErrClientHasQuitExtinguished.
UserQuitsInSession ==
    /\ client.pc = "session"
    /\ PostClientError(ErrClientHasQuitExtinguished)

\* A goroutine of a session that has ended on this connection posts its error
\* after the session's first error was taken: sendMsgsLoop was inside
\* sendMsgExpectAsyncResponse, or handleResponsesLoop inside
\* handleIncomingResponse, when the context was cancelled.
LateTaskPosts(err) ==
    /\ client.pc \in {"prompt", "waitAuth"}
    /\ client.last # NoError
    /\ PostClientError(err)

\* handleIncomingResponse: a response whose id is in no pendingAcks entry.
UnexpectedResponse ==
    /\ client.pc = "session"
    /\ ~client.eof
    /\ PostClientError(ErrResponseForUnexpectedId)

\* What the switch of runUntilLoggedOut is not: one that takes the server's
\* logout for the end of the connection.
afterSessionReconnects(err) ==
    IF err \in {ErrServerLoggedUsOut, ErrEOF} THEN "reconnect" ELSE "exited"

\* runUntilLoggedOut, the switch on err: where the client goes when the session
\* ends.  (true, true) keeps the relog loop of runClientUntilDisconnected going;
\* (false, true) leaves it and makes RunClient dial again; (false, false) ends
\* RunClient.
afterSession(err) ==
    IF err = ErrServerLoggedUsOut THEN "prompt"
    ELSE IF err = ErrClientHasQuitExtinguished THEN "exited"
    ELSE IF err \in {ErrEOF, ErrServerTimedOut} THEN "reconnect"
    ELSE "exited"

\* runUntilLoggedOut: err = <-me.errs ends the session.
SessionEnds ==
    /\ client.pc = "session"
    /\ client.errs # <<>>
    /\ client' = [client EXCEPT !.pc = afterSession(Head(client.errs)),
                                !.last = Head(client.errs),
                                !.errs = Tail(@)]
    /\ UNCHANGED <<serverVars, frame, hubCalls>>

\* RunClient: shouldReconnect is true, runClientUntilDisconnected closes the
\* connection and a new one is dialed by startSession, with a new table of
\* expected responses; the counter of getUniqueID is the process's.
Redial ==
    /\ client.pc = "reconnect"
    /\ client.dials < MaxDials
    /\ client' = [startSession(client.dials + 1) EXCEPT !.globalID = client.globalID,
                                                        !.ids = client.ids]
    /\ UNCHANGED <<serverVars, frame, hubCalls>>

\* ---------------------------------------------------------------- frames
\* Lines are sequences of characters: the two prefixes, the separator, a letter.
ServerResponsePrefix == "r"
MsgPrefix == "m"
IdSeparator == ";"
Chars == {ServerResponsePrefix, MsgPrefix, IdSeparator, "a"}

\* The sequences over set of a length up to n.
SeqsUpTo(set, n) == UNION {[1..k -> set] : k \in 0..n}

\* strings.HasPrefix(s, prefix), the prefix being one character.
HasPrefix(s, prefix) == Len(s) >= 1 /\ s[1] = prefix

\* strings.Split(s, IdSeparator): the pieces of s between the separators.
RECURSIVE Split(_)
Split(s) ==
    IF \A i \in 1..Len(s) : s[i] # IdSeparator
    THEN <<s>>
    ELSE LET i == CHOOSE k \in 1..Len(s) :
                      s[k] = IdSeparator /\ \A j \in 1..(k - 1) : s[j] # IdSeparator
         IN <<SubSeq(s, 1, i - 1)>> \o Split(SubSeq(s, i + 1, Len(s)))

\* The parser's failure.
NotParsed == [ok |-> FALSE, id |-> <<>>, text |-> <<>>]

\* What the parser is not: one that takes the second piece for the payload.
parseSecondPiece(s, prefix) ==
    IF ~HasPrefix(s, prefix)
    THEN NotParsed
    ELSE LET rest == Tail(s)
             parts == Split(rest)
         IN IF Len(parts) < 2
            THEN NotParsed
            ELSE [ok |-> TRUE, id |-> parts[1], text |-> parts[2]]

\* ParseServerResponse with prefix r, parseInputMsg with prefix m (the two
\* functions are the same but for the prefix): strip the prefix, split at the
\* separators, the id is the first piece, the payload is all that follows the
\* id and one separator.
parseFrame(s, prefix) ==
    IF ~HasPrefix(s, prefix)
    THEN NotParsed
    ELSE LET rest == Tail(s)
             parts == Split(rest)
         IN IF Len(parts) < 2
            THEN NotParsed
            ELSE [ok |-> TRUE, id |-> parts[1],
                  text |-> SubSeq(rest, Len(parts[1]) + 1 + 1, Len(rest))]

ParseServerResponse(s) == parseFrame(s, ServerResponsePrefix)

parseInputMsg(s) == parseFrame(s, MsgPrefix)

\* forwardResponseToUser and sendMsgWithTimeout: prefix, id, separator, payload
\* (the newline that ends the line is what ScanLine takes off again).
serialize(prefix, id, text) == <<prefix>> \o id \o <<IdSeparator>> \o text

\* A well-formed frame arrives: its id holds no separator, its payload may.
InitFrames ==
    /\ InitHub /\ panic = NoPanic /\ client = startSession(1) /\ hubCalls = NoCalls
    /\ \E prefix \in {ServerResponsePrefix, MsgPrefix},
          id \in SeqsUpTo(Chars \ {IdSeparator}, MaxIdLen),
          text \in SeqsUpTo(Chars, MaxTextLen) :
            frame = [stage |-> "line", prefix |-> prefix, id |-> id, text |-> text,
                     line |-> serialize(prefix, id, text)]

\* The receiver parses the line: the client a response, the server a message.
ParseFrame ==
    /\ frame.stage = "line"
    /\ frame' = [stage |-> "parsed", prefix |-> frame.prefix, id |-> frame.id,
                 text |-> frame.text, line |-> frame.line,
                 parsed |-> IF frame.prefix = ServerResponsePrefix
                            THEN ParseServerResponse(frame.line)
                            ELSE parseInputMsg(frame.line)]
    /\ UNCHANGED <<serverVars, client, hubCalls>>

\* The parsed parts are written out as a line again.
SerializeFrame ==
    /\ frame.stage = "parsed"
    /\ frame.parsed.ok
    /\ frame' = [stage |-> "serialized", prefix |-> frame.prefix, id |-> frame.id,
                 text |-> frame.text, line |-> frame.line, parsed |-> frame.parsed,
                 out |-> serialize(frame.prefix, frame.parsed.id, frame.parsed.text)]
    /\ UNCHANGED <<serverVars, client, hubCalls>>

\* ---------------------------------------------------------------- specifications
\* Authentication and the end of a session.
SessionNext(requests) ==
    \/ \E c \in Conns, request \in requests, w \in BOOLEAN : AcceptAuthRequest(c, request, w)
    \/ \E c \in Conns : AuthClientQuit(c)
    \/ \E c \in Conns : AuthWeirdAction(c)
    \/ \E c \in Conns, w \in BOOLEAN : logClientIn(c, w)
    \/ \E c \in Conns, h \in BOOLEAN : HandlerExit(c, h)
    \/ \E c \in Conns : LoopReceivesFromClosedInbox(c)

\* The /quit command.
QuitNext ==
    \/ \E c \in Conns : DispatchQuit(c)
    \/ \E c \in Conns : QuitRespond(c)
    \/ \E c \in Conns : QuitLogout(c)
    \/ \E c \in Conns : QuitForwardCmd(c)

\* The broadcasts of the connections cs, once dispatched.
DeliveryNextOf(cs) ==
    \/ \E c \in cs : BroadcastSnapshot(c)
    \/ \E c \in cs : DeadlineFires(c)
    \/ \E c \in cs, r \in cs : TaskSends(c, r)
    \/ \E c \in cs, r \in cs : TaskSendsOnClosed(c, r)
    \/ \E c \in cs, r \in cs : ForwardMsgToUser(c, r)
    \/ \E c \in cs, r \in cs : TaskSucceeds(c, r)
    \/ \E c \in cs, r \in cs : TaskCancelled(c, r)
    \/ \E c \in cs : BroadcastReturns(c)
    \/ \E c \in cs : BroadcastRespond(c)

\* Chat messages of the connections cs.
ChatNextOf(cs) ==
    \/ \E c \in cs : DispatchBroadcast(c)
    \/ DeliveryNextOf(cs)

\* Chat messages.
ChatNext == ChatNextOf(Conns)

\* The server with clients that chat and quit; they all type the same password.
Next == SessionNext(OnePasswordRequests) \/ QuitNext \/ ChatNext

Spec == Init /\ [][Next]_vars

\* The server with clients that only log in and hang up; they type any password.
NextAuth == SessionNext(AuthRequests)

SpecAuth == Init /\ [][NextAuth]_vars

\* The server with three clients that register under three names (the name of
\* connection c is ChatNames[c]), chat and hang up.
ChatNames == <<"a", "b", "c">>

ChatRequest(c) == [authType |-> ActionRegister, name |-> ChatNames[c], password |-> "p"]

NextChat ==
    \/ \E c \in Conns : AcceptAuthRequest(c, ChatRequest(c), TRUE)
    \/ \E c \in Conns, w \in BOOLEAN : logClientIn(c, w)
    \/ \E c \in Conns, h \in BOOLEAN : HandlerExit(c, h)
    \/ ChatNext

SpecChat == Init /\ [][NextChat]_vars

\* The server with four clients: two register the one name at the same time, two
\* register names of their own; they chat and hang up.
WideNames == <<"a", "a", "b", "c">>

WideRequest(c) == [authType |-> ActionRegister, name |-> WideNames[c], password |-> "p"]

NextWide ==
    \/ \E c \in WideConns : AcceptAuthRequest(c, WideRequest(c), TRUE)
    \/ \E c \in WideConns : logClientIn(c, TRUE)
    \/ \E c \in WideConns, h \in BOOLEAN : HandlerExit(c, h)
    \/ ChatNextOf(WideConns)

SpecWide == Init /\ [][NextWide]_vars

\* The server with three clients that register under three names, stay
\* connected, and send up to MaxOrderBroadcasts chat messages.
NextOrder ==
    \/ \E c \in Conns : AcceptAuthRequest(c, ChatRequest(c), TRUE)
    \/ \E c \in Conns : logClientIn(c, TRUE)
    \/ \E c \in Conns : DispatchBroadcastUpTo(c, MaxOrderBroadcasts)
    \/ \E c \in Conns : BroadcastSnapshot(c)
    \/ \E c \in Conns : DeadlineFires(c)
    \/ \E c \in Conns, r \in Conns : TaskSends(c, r)
    \/ \E c \in Conns, r \in Conns : ForwardMsgToUser(c, r)
    \/ \E c \in Conns, r \in Conns : TaskSucceeds(c, r)
    \/ \E c \in Conns, r \in Conns : TaskCancelled(c, r)
    \/ \E c \in Conns : BroadcastReturns(c)
    \/ \E c \in Conns : BroadcastRespond(c)

SpecOrder == Init /\ [][NextOrder]_vars

\* What a recipient that keeps reading excludes: a deadline that fires whenever
\* it likes.
DeadlineAnyTime(c) == DeadlineFires(c)

\* MsgSendTimeout passes for the broadcast of c while every recipient keeps
\* reading: each recipient's loop, always at its select, took the message from
\* the inbox before the 200 ms were over.
DeadlineAfterTaken(c) ==
    /\ \A r \in DOMAIN tasks[c] : tasks[c][r].st # "sending"
    /\ DeadlineFires(c)

\* The server with three clients that register under three names, stay
\* connected, keep reading, and send up to MaxOrderBroadcasts chat messages.
NextDeliver ==
    \/ \E c \in Conns : AcceptAuthRequest(c, ChatRequest(c), TRUE)
    \/ \E c \in Conns : logClientIn(c, TRUE)
    \/ \E c \in Conns : DispatchBroadcastUpTo(c, MaxOrderBroadcasts)
    \/ \E c \in Conns : BroadcastSnapshot(c)
    \/ \E c \in Conns : DeadlineAfterTaken(c)
    \/ \E c \in Conns, r \in Conns : TaskSends(c, r)
    \/ \E c \in Conns, r \in Conns : ForwardMsgToUser(c, r)
    \/ \E c \in Conns, r \in Conns : TaskSucceeds(c, r)
    \/ \E c \in Conns, r \in Conns : TaskCancelled(c, r)
    \/ \E c \in Conns : BroadcastReturns(c)
    \/ \E c \in Conns : BroadcastRespond(c)

\* The Go scheduler runs every goroutine that can take a step: the goroutine of
\* dispatchUserInput, the sendMessageToClient goroutines with the recipients'
\* loops, and the forwardMsgToUser goroutines.
FairDeliver ==
    /\ \A c \in Conns : WF_vars(BroadcastSnapshot(c))
    /\ \A c \in Conns : WF_vars(BroadcastReturns(c))
    /\ \A c \in Conns : WF_vars(BroadcastRespond(c))
    /\ \A c, r \in Conns : WF_vars(TaskSends(c, r))
    /\ \A c, r \in Conns : WF_vars(ForwardMsgToUser(c, r))
    /\ \A c, r \in Conns : WF_vars(TaskSucceeds(c, r))
    /\ \A c, r \in Conns : WF_vars(TaskCancelled(c, r))

SpecDeliver == Init /\ [][NextDeliver]_vars /\ FairDeliver

\* The client program against a server that may answer, send command frames and
\* close the connection as it likes.
NextClient ==
    \/ \E name, password \in UserInputs, w \in BOOLEAN : ClientAuthenticate(name, password, w)
    \/ UserQuitsAtPrompt
    \/ \E ok \in BOOLEAN : AuthAnswered(ok)
    \/ AuthTakesErr
    \/ AuthReadsClosedResponses
    \/ \E id \in MsgIds \cup {EmptyId}, ok \in BOOLEAN : AuthTakesLeftover(id, ok)
    \/ UserTypesLine
    \/ SendFails
    \/ UserTypesQuit
    \/ \E id \in MsgIds : ResponseArrives(id)
    \/ \E id \in MsgIds : AckTimeout(id)
    \/ \E id \in MsgIds : WaiterGetsResponse(id)
    \/ \E cmd \in {LogoutCmd, OddCmd} : SplitReadsCmd(cmd)
    \/ SplitReadsEOF
    \/ ReceiveServerCmd
    \/ UserQuitsInSession
    \/ UnexpectedResponse
    \/ \E err \in {ErrWrite, ErrResponseForUnexpectedId} : LateTaskPosts(err)
    \/ SessionEnds
    \/ Redial

SpecClient == Init /\ [][NextClient]_vars

\* The client program with the /quit of the second draft, which logs out without
\* waiting for the server.
NextRelog == NextClient \/ dispatchCmd

SpecRelog == Init /\ [][NextRelog]_vars

\* ---------------------------------------------------------------- the Hub's locks
\* The calls that take hub.activeUsersLock for writing, and those of them that
\* take hub.userDBLock inside it.
Exclusive == {"testAuth", "logClientIn", "Logout"}
BothLocks == {"testAuth", "logClientIn"}
Broadcast == "BroadcastMessageWithTimeout"

\* The call holds activeUsersLock for writing: from Lock() to the deferred Unlock().
HoldsWrite(call) ==
    \/ call.op \in BothLocks /\ call.at \in {"wantDB", "in", "unlockA"}
    \/ call.op = "Logout" /\ call.at = "in"

\* What BroadcastMessageWithTimeout is not: one that defers RUnlock to its return.
HoldsReadUntilReturn(call) == call.op = Broadcast /\ call.at \in {"in", "deliver"}

\* The call holds activeUsersLock for reading: BroadcastMessageWithTimeout from
\* RLock() to the RUnlock() that precedes its counting loop (or its early return).
HoldsRead(call) == call.op = Broadcast /\ call.at = "in"

\* The call holds userDBLock.
HoldsDB(call) == call.op \in BothLocks /\ call.at = "in"

\* The call is blocked in activeUsersLock.Lock().
WaitsForWrite(call) == call.op \in Exclusive /\ call.at = "wantA"

\* A goroutine calls the Hub: TryToAuthenticate (testAuth first), Logout or
\* BroadcastMessageWithTimeout; each starts by asking for activeUsersLock.
CallHub(g, op) ==
    /\ hubCalls[g] = NoCall
    /\ hubCalls' = [hubCalls EXCEPT ![g] = [op |-> op, at |-> "wantA"]]
    /\ UNCHANGED <<serverVars, client, frame>>

\* hub.activeUsersLock.Lock() returns: nobody else holds the lock.
LockActiveUsers(g) ==
    /\ WaitsForWrite(hubCalls[g])
    /\ \A h \in Callers : ~HoldsWrite(hubCalls[h]) /\ ~HoldsRead(hubCalls[h])
    /\ hubCalls' = [hubCalls EXCEPT ![g].at =
                       IF hubCalls[g].op \in BothLocks THEN "wantDB" ELSE "in"]
    /\ UNCHANGED <<serverVars, client, frame>>

\* hub.activeUsersLock.RLock() returns: no writer holds the lock and none is
\* blocked in Lock() (sync.RWMutex lets a blocked writer exclude new readers).
RLockActiveUsers(g) ==
    /\ hubCalls[g] = [op |-> Broadcast, at |-> "wantA"]
    /\ \A h \in Callers : ~HoldsWrite(hubCalls[h]) /\ ~WaitsForWrite(hubCalls[h])
    /\ hubCalls' = [hubCalls EXCEPT ![g].at = "in"]
    /\ UNCHANGED <<serverVars, client, frame>>

\* hub.userDBLock.Lock() returns.
LockUserDB(g) ==
    /\ hubCalls[g].at = "wantDB"
    /\ \A h \in Callers : ~HoldsDB(hubCalls[h])
    /\ hubCalls' = [hubCalls EXCEPT ![g].at = "in"]
    /\ UNCHANGED <<serverVars, client, frame>>

\* testAuth or logClientIn returns: the deferred userDBLock.Unlock() runs first.
UnlockUserDB(g) ==
    /\ HoldsDB(hubCalls[g])
    /\ hubCalls' = [hubCalls EXCEPT ![g].at = "unlockA"]
    /\ UNCHANGED <<serverVars, client, frame>>

\* The deferred activeUsersLock.Unlock() of testAuth, logClientIn or Logout.
\* TryToAuthenticate goes on to logClientIn when testAuth answered Ok.
UnlockActiveUsers(g, ok) ==
    /\ \/ hubCalls[g].op \in BothLocks /\ hubCalls[g].at = "unlockA"
       \/ hubCalls[g] = [op |-> "Logout", at |-> "in"]
    /\ hubCalls' = [hubCalls EXCEPT ![g] =
                       IF hubCalls[g].op = "testAuth" /\ ok
                       THEN [op |-> "logClientIn", at |-> "wantA"]
                       ELSE NoCall]
    /\ UNCHANGED <<serverVars, client, frame>>

\* BroadcastMessageWithTimeout leaves its section under the read lock: for no
\* recipient it returns, else the goroutines are started and it counts results.
RUnlockActiveUsers(g, recipients) ==
    /\ hubCalls[g] = [op |-> Broadcast, at |-> "in"]
    /\ hubCalls' = [hubCalls EXCEPT ![g] =
                       IF recipients THEN [op |-> Broadcast, at |-> "deliver"] ELSE NoCall]
    /\ UNCHANGED <<serverVars, client, frame>>

\* BroadcastMessageWithTimeout returns: all results are in, at the deadline at
\* the latest.
DeliveryEnds(g) ==
    /\ hubCalls[g] = [op |-> Broadcast, at |-> "deliver"]
    /\ hubCalls' = [hubCalls EXCEPT ![g] = NoCall]
    /\ UNCHANGED <<serverVars, client, frame>>

\* A step of a call between its start and its delivery: a lock taken or released.
LockStep(g) ==
    \/ LockActiveUsers(g)
    \/ RLockActiveUsers(g)
    \/ LockUserDB(g)
    \/ UnlockUserDB(g)
    \/ \E ok \in BOOLEAN : UnlockActiveUsers(g, ok)
    \/ \E recipients \in BOOLEAN : RUnlockActiveUsers(g, recipients)

NextLocks ==
    \/ \E g \in Callers, op \in {"testAuth", "Logout", Broadcast} : CallHub(g, op)
    \/ \E g \in Callers : LockStep(g)
    \/ \E g \in Callers : DeliveryEnds(g)

SpecLocks == Init /\ [][NextLocks]_vars

\* The frames of the wire protocol under their parsers.
NextFrames == ParseFrame \/ SerializeFrame

SpecFrames == InitFrames /\ [][NextFrames]_vars

\* ---------------------------------------------------------------- the claims
\* A handler that was answered r;Ok and has not been logged out: its message loop
\* runs and Logout has not closed it.
LoggedIn(c) == pc[c] = "loggedIn" /\ ~closed[c]

\* C1: single login.  In every reachable state at most one connection handler is
\* logged in (answered Ok, not yet logged out) under any given user name.
C1_SingleLogin ==
    \A c, d \in Conns :
        (c # d /\ LoggedIn(c) /\ LoggedIn(d)) => creds[c].name # creds[d].name

\* A step in which connection c leaves the gap between testAuth and logClientIn
\* by inserting its handler.
Inserts(c) == pc[c] = "tested" /\ pc'[c] \in {"loggedIn", "done"}

\* C2: Authenticate is atomic.  While a connection stands between the check that
\* decided Ok and its insertion, no other call changes UserStore or SessionSet;
\* so at the insertion the name is absent from SessionSet, and for a Login the
\* stored password is the one given.
C2_AuthenticateAtomic ==
    [][\A c \in Conns :
          /\ (pc[c] = "tested" /\ pc'[c] = "tested") => UNCHANGED hubVars
          /\ Inserts(c) =>
                /\ req[c].name \notin DOMAIN activeUsers
                /\ req[c].authType = ActionLogin =>
                      /\ req[c].name \in DOMAIN userDB
                      /\ userDB[req[c].name] = req[c].password]_vars

\* C3: a stored password never changes.  While the process lives, a name that is
\* in UserStore stays there with the same password, whatever calls follow.
C3_PasswordNeverChanges ==
    [][panic' = NoPanic =>
          \A n \in DOMAIN userDB : n \in DOMAIN userDB' /\ userDB'[n] = userDB[n]]_vars

\* The response testAuth gives connection c in this step, as the client hears of
\* it: "tested" stands for the Ok that logClientIn and the r;Ok line follow.
Answered(c, response) ==
    IF response = ResponseOk
    THEN pc'[c] = "tested"
    ELSE pc'[c] = "auth" /\ resp'[c] = response

\* A step in which connection c has the request decided, the process living on.
Decides(c, request) ==
    /\ \E writeOk \in BOOLEAN : AcceptAuthRequest(c, request, writeOk)
    /\ panic' = NoPanic

\* C4: Login(name,p) returns InvalidCredentials when name is not in UserStore or
\* the stored password differs from p, also when name is online; otherwise
\* UserAlreadyOnline when name is in SessionSet; otherwise Ok, and name is in
\* SessionSet once the handler is inserted.
C4_LoginOutcomes ==
    [][\A c \in Conns :
          /\ \A request \in AuthRequests :
                (request.authType = ActionLogin /\ Decides(c, request)) =>
                    IF request.name \notin DOMAIN userDB
                       \/ userDB[request.name] # request.password
                    THEN Answered(c, ResponseInvalidCredentials)
                    ELSE IF request.name \in DOMAIN activeUsers
                         THEN Answered(c, ResponseUserAlreadyOnline)
                         ELSE Answered(c, ResponseOk)
          /\ (Inserts(c) /\ req[c].authType = ActionLogin) =>
                req[c].name \in DOMAIN activeUsers']_vars

\* C4 happens: one Login was refused because the name was online, with the right
\* password, and another Login was decided Ok.
C4_Witness ==
    \E c, d \in Conns :
        /\ resp[d] = ResponseUserAlreadyOnline
        /\ pc[c] = "tested"
        /\ req[c].authType = ActionLogin

\* C5: Register(name,p) returns UsernameExists whenever name is in UserStore;
\* otherwise Ok, and once inserted UserStore[name] = p and SessionSet holds the
\* registering connection under name.  A stored name stays stored, so every later
\* Register of it is refused.  Registering one name leaves the sessions of the
\* other names in place, so two clients registering two names are both logged in.
C5_RegisterOutcomes ==
    [][\A c \in Conns :
          /\ \A request \in AuthRequests :
                (request.authType = ActionRegister /\ Decides(c, request)) =>
                    IF request.name \in DOMAIN userDB
                    THEN Answered(c, ResponseUsernameExists)
                    ELSE Answered(c, ResponseOk)
          /\ (Inserts(c) /\ req[c].authType = ActionRegister) =>
                /\ req[c].name \in DOMAIN userDB'
                /\ userDB'[req[c].name] = req[c].password
                /\ req[c].name \in DOMAIN activeUsers'
                /\ activeUsers'[req[c].name] = c
                /\ \A n \in (DOMAIN activeUsers) \ {req[c].name} :
                      n \in DOMAIN activeUsers' /\ activeUsers'[n] = activeUsers[n]
          /\ panic' = NoPanic => DOMAIN userDB \subseteq DOMAIN userDB']_vars

\* C5 happens: two connections are logged in under two names, each the session
\* of its name, and a Register of a stored name was refused.
C5_Witness ==
    \E c, d, e \in Conns :
        /\ LoggedIn(c) /\ LoggedIn(d)
        /\ creds[c].name # creds[d].name
        /\ activeUsers = [n \in Names |-> IF n = creds[c].name THEN c ELSE d]
        /\ resp[e] = ResponseUsernameExists

\* The Login a new connection sends with the credentials of connection c.
LoginAs(c) ==
    [authType |-> ActionLogin, name |-> creds[c].name, password |-> creds[c].password]

\* A step in which the client of connection c hangs up and the session that ends
\* is the one stored for its name, with its password.
Disconnects(c) ==
    /\ HandlerExit(c, TRUE)
    /\ creds[c].name \in DOMAIN activeUsers
    /\ activeUsers[creds[c].name] = c
    /\ userDB[creds[c].name] = creds[c].password

\* C6: login after disconnect.  When the connection of a client that was answered
\* r;Ok under name with password p ends, the UserStore entry survives and the
\* SessionSet entry does not, so a new connection's Login(name,p) is decided Ok.
C6_LoginAfterDisconnect ==
    [][\A c \in Conns :
          Disconnects(c) =>
              /\ panic' = NoPanic
              /\ userDB' = userDB
              /\ creds[c].name \notin DOMAIN activeUsers'
              /\ testAuth(userDB', activeUsers', LoginAs(c)) = ResponseOk]_vars

\* C6 happens: a connection that was logged in has ended and a new connection's
\* Login with the same name and password was decided Ok.
C6_Witness ==
    \E c, d \in Conns :
        /\ pc[c] = "done"
        /\ creds[c] # NoCreds
        /\ creds[c].name \notin DOMAIN activeUsers
        /\ pc[d] = "tested"
        /\ req[d] = LoginAs(c)

\* A step in which connection c calls Hub.Logout: from runUserCommand or from the
\* deferred call of HandleNewConnection.
CallsLogout(c) == QuitLogout(c) \/ HandlerExit(c, TRUE) \/ HandlerExit(c, FALSE)

\* C7: Logout is idempotent.  Logout(name) with name not in SessionSet changes
\* nothing and does not fail.
C7_LogoutIdempotent ==
    [][\A c \in Conns :
          (CallsLogout(c) /\ creds[c].name \notin DOMAIN activeUsers) =>
              (panic' = NoPanic /\ activeUsers' = activeUsers /\ closed' = closed)]_vars

\* The sessions of the snapshot of c's broadcast other than the sender's: the
\* handlers SessionSet held under the other names when the broadcast looked.
SnapshotRecipients(c) ==
    {bc[c].snapshot[n] : n \in (DOMAIN bc[c].snapshot) \ {bc[c].sender}}

\* The recipients whose delivery the broadcast of c saw completed before the
\* deadline: their sendMessageToClient returned nil.
Completed(c) == {r \in DOMAIN tasks[c] : tasks[c][r].st = "ok"}

\* C8: broadcast outcome.  The response a Broadcast call returns is Ok iff every
\* recipient of the snapshot completed delivery before the deadline (also with no
\* recipient); MsgFailedForAll iff there is a recipient and none completed;
\* MsgFailedForSome iff one completed and one did not.
C8_BroadcastOutcome ==
    \A c \in Conns :
        bcPc[c] = "returned" =>
            LET all == SnapshotRecipients(c)
                ok == all \cap Completed(c)
            IN /\ bc[c].response = ResponseOk <=> ok = all
               /\ bc[c].response = ResponseMsgFailedForAll <=> (all # {} /\ ok = {})
               /\ bc[c].response = ResponseMsgFailedForSome <=> (ok # {} /\ ok # all)

\* C9: recipient set of a broadcast.  The recipients a Broadcast call delivers to
\* and counts are exactly the sessions of the snapshot minus the sender; each gets
\* at most one line of it, the sender gets none, and a session that logs in after
\* the snapshot is neither delivered to nor counted.
C9_RecipientSet ==
    \A c \in Conns :
        bcPc[c] \in {"waiting", "returned"} =>
            /\ DOMAIN tasks[c] = SnapshotRecipients(c)
            /\ bc[c].total = Cardinality(SnapshotRecipients(c))
            /\ c \notin DOMAIN tasks[c]
            /\ \A r \in DOMAIN tasks[c] : tasks[c][r].lines <= 1

\* The Broadcast call of c is running: dispatched and not yet returned.
InBroadcast(c) == bcPc[c] \in {"spawned", "waiting"}

\* C10: a broadcast always terminates.  A Broadcast call is never cut short by
\* its own fan-out; once the deadline has fired every recipient task still out
\* can report, so the call can return; and when the only recipient never took
\* the message the response is MsgFailedForAll.
C10_BroadcastTerminates ==
    [][\A c \in Conns :
          /\ InBroadcast(c) => panic' \notin {SendOnClosed, MakechanRange}
          /\ (bcPc[c] = "waiting" /\ bc[c].done) =>
                \/ Len(bc[c].errs) >= bc[c].total
                \/ \E r \in DOMAIN tasks[c] : tasks[c][r].st \in {"sending", "waiting"}
          /\ (bcPc[c] = "waiting" /\ bcPc'[c] = "returned"
              /\ \E r \in Conns : /\ SnapshotRecipients(c) = {r}
                                  /\ tasks[c][r].msg = "new") =>
                bc'[c].response = ResponseMsgFailedForAll]_vars

\* The broadcast of s was sent by a session: the sender's name is in the snapshot.
SenderInSnapshot(s) == bc[s].sender \in DOMAIN bc[s].snapshot

\* In the broadcast of s recipient slow never took the message from its inbox,
\* and recipient quick took it, wrote it and signalled completion in time.
SlowAndQuick(s, slow, quick) ==
    /\ slow # quick
    /\ {slow, quick} \subseteq DOMAIN tasks[s]
    /\ tasks[s][slow].msg = "new"
    /\ tasks[s][quick].st = "ok"

\* C11: a slow recipient does not block the others.  In a broadcast of a logged-in
\* sender, a recipient whose loop runs can take the message whatever the other
\* recipients do; and when one recipient never drained and another completed, the
\* other got its line and the response is MsgFailedForSome.
C11_SlowRecipient ==
    \A s \in Conns :
        /\ \A r \in DOMAIN tasks[s] :
              (bcPc[s] = "waiting" /\ tasks[s][r].st = "sending" /\ LoggedIn(r)) =>
                  ENABLED TaskSends(s, r)
        /\ \A slow, quick \in Conns :
              (bcPc[s] = "returned" /\ SenderInSnapshot(s) /\ SlowAndQuick(s, slow, quick)) =>
                  /\ tasks[s][quick].lines = 1
                  /\ bc[s].response = ResponseMsgFailedForSome

\* C11 happens: a broadcast returned with a recipient that is logged in and never
\* took the message and another that completed.
C11_Witness ==
    \E s, slow, quick \in Conns :
        /\ bcPc[s] = "returned"
        /\ SenderInSnapshot(s)
        /\ SlowAndQuick(s, slow, quick)
        /\ LoggedIn(slow)
        /\ bc[s].response = ResponseMsgFailedForSome

\* A step in which the goroutine of a message of c passes forwardResponseToUser.
PassesResponse(c) ==
    \/ bcPc[c] = "returned" /\ bcPc'[c] = "done"
    \/ quitPc[c] = "spawned" /\ quitPc'[c] \in {"responded", "done"}

\* C12: exactly one response per message.  For a message that a logged-in handler
\* read, the goroutine dispatched for it writes the response frame once, and
\* while the client is still there the write reaches the stream: the server has
\* not closed the stream under it.
C12_OneResponse ==
    [][\A c \in Conns :
          (PassesResponse(c) /\ pc[c] = "loggedIn") => ~closed[c]]_vars

\* C13: the response for a message is written only after its broadcast finished
\* the fan-out.  When the response frame is written to the sender's stream, every
\* recipient task of the broadcast has returned, or the deadline has fired.
C13_ResponseAfterFanOut ==
    [][\A c \in WideConns :
          (bcPc[c] = "returned" /\ bcPc'[c] = "done" /\ ~closed[c]) =>
              \A r \in DOMAIN tasks[c] : tasks[c][r].st \in {"ok", "err"} \/ bc[c].done]_vars

\* A step in which the forwardMsgToUser goroutine of recipient r writes the line
\* of the message that sender c broadcast.
WritesLine(c, r) == ForwardMsgToUser(c, r) /\ ~closed[r]

\* C14: delivery order.  The lines of chat messages are written to a recipient's
\* stream in the order in which its loop took the messages from the inbox: when
\* a line is written, no message taken before it is still unwritten.
C14_DeliveryOrder ==
    [][\A c, r \in Conns :
          WritesLine(c, r) => tasks[c][r].behind \cap TakenBy(r) = {}]_vars

\* The chat message the server read from c has not reached the stream of r: the
\* broadcast has not started, or the message is in the hands of the
\* sendMessageToClient goroutine for r or of r's forwardMsgToUser goroutine.
Undelivered(c, r) ==
    \/ bcPc[c] = "spawned"
    \/ r \in DOMAIN tasks[c] /\ tasks[c][r].msg \in {"new", "taken"}

\* The server has read a chat message of c that the logged-in r has yet to get.
SentTo(c, r) == c # r /\ LoggedIn(c) /\ LoggedIn(r) /\ Undelivered(c, r)

C16_QuitFrameDelivered ==
    [][\A c \in Conns :
          QuitForwardCmd(c) =>
              (~closed[c] /\ creds[c].name \notin DOMAIN activeUsers)]_vars

\* The server has logged the client out: the client wrote /quit, the command
\* frame /quit came back, and its error is the one runUntilLoggedOut takes next.
LoggedOutByServer ==
    /\ client.pc = "session"
    /\ client.errs # <<>>
    /\ Head(client.errs) = ErrServerLoggedUsOut

\* C17: client-side relog.  A client that the server logged out with the command
\* frame /quit leaves the session loop and runs the authentication prompt again
\* on the same connection: it dials no new connection and does not exit.
C17_ClientRelog ==
    [][LoggedOutByServer =>
          /\ ENABLED SessionEnds
          /\ SessionEnds => /\ client'.pc = "prompt"
                            /\ client'.dials = client.dials
                            /\ client'.eof = client.eof]_vars

\* The client is at the authentication prompt again, on the connection it had
\* when the server logged it out.
C17_Witness ==
    /\ client.pc = "prompt"
    /\ client.last = ErrServerLoggedUsOut
    /\ client.dials = 1
    /\ ~client.eof

\* C18: the server survives every client.  No sequence of client actions (a
\* first line that is neither l nor r, a disconnect during authentication, a
\* /quit, a second Logout of a name, a disconnect with messages in flight) ends
\* the server process in a runtime panic.
C18_ServerSurvives == panic = NoPanic

\* The sendMessageToClient goroutine of c's broadcast for recipient r is at its
\* send, and r's handler has been closed since the snapshot.
InFlightToClosed(c, r) ==
    /\ r \in DOMAIN tasks[c]
    /\ tasks[c][r].st = "sending"
    /\ closed[r]

\* C19: a failed delivery stays a response payload.  When the handler of a
\* recipient is closed while a broadcast to it is in flight, the send to that
\* recipient ends as one failed delivery: the server goes on, and so do the
\* broadcast and the sessions of the others.
C19_FailedDeliveryIsPayload ==
    [][\A c, r \in Conns :
          (InFlightToClosed(c, r) /\ TaskSendsOnClosed(c, r)) =>
              /\ panic' = NoPanic
              /\ pc' = pc
              /\ r \in DOMAIN tasks'[c] /\ tasks'[c][r].st = "err"]_vars

\* A step in which the handler of c, in AUTH, reads the lines of an
\* authentication request whose answer the client is there to read: the first
\* line is l or r, or it is something else.
ReadsAuthRequest(c) ==
    \/ \E request \in OnePasswordRequests : AcceptAuthRequest(c, request, TRUE)
    \/ AuthWeirdAction(c)

\* What Authenticate can answer.
AuthResponses ==
    {ResponseOk, ResponseUserAlreadyOnline, ResponseUsernameExists, ResponseInvalidCredentials}

\* C20: server AUTH state.  Every authentication request of three lines gets one
\* response frame: Ok, and the handler goes on to LOGGED_IN, or an error
\* payload, and the handler stays in AUTH for a further request.  No tagged
\* message of a connection is processed before its Ok.
C20_AuthState ==
    [][\A c \in Conns :
          /\ ReadsAuthRequest(c) =>
                (panic' = NoPanic /\ \E response \in AuthResponses : Answered(c, response))
          /\ (bcPc'[c] # bcPc[c] \/ quitPc'[c] # quitPc[c]) =>
                (panic' # NoPanic \/ pc[c] \in {"loggedIn", "done"})]_vars

\* The step takes the client where the driver's classification of err says.
Classified(err) ==
    IF err = ErrServerLoggedUsOut
    THEN client'.pc = "prompt" /\ client'.dials = client.dials
    ELSE IF err = ErrClientHasQuitExtinguished THEN client'.pc = "exited"
    ELSE IF err = ErrEOF THEN client'.pc = "reconnect"
    ELSE client'.pc \in {"exited", "fatal"}

\* C21: client driver classification.  When the session or the authentication
\* phase ends with an error: ServerLoggedUsOut leads back to authentication on
\* the same connection; the end of the user's input makes the client exit
\* gracefully, in either phase; EOF from the server leads to a new connection
\* attempt; any other error is logged and the client exits.
C21_DriverClassification ==
    [][/\ SessionEnds => Classified(Head(client.errs))
       /\ AuthTakesErr => Classified(Head(client.errs))
       /\ UserQuitsAtPrompt => Classified(ErrClientHasQuitExtinguished)]_vars

\* A step in which the user, asked for a name and a password, leaves one empty.
EntersEmptyCredentials ==
    \E name, password \in UserInputs, w \in BOOLEAN :
        /\ name = "" \/ password = ""
        /\ ClientAuthenticate(name, password, w)

\* C22: empty credentials are rejected on the client.  When the user enters an
\* empty name or an empty password the client prompts again: it sends no
\* authentication request and it does not fail.
C22_EmptyCredentialsRejected ==
    [][EntersEmptyCredentials => client'.pc = "prompt"]_vars

\* A step in which handleIncomingResponse gets a response whose id has no entry
\* in the table of expected responses: an id the server made up, or the id of a
\* message whose waiter has timed out and removed the entry.
UnknownResponse ==
    \/ UnexpectedResponse
    \/ \E id \in MsgIds : id \notin client.pending /\ ResponseArrives(id)

\* C23: an unknown response id is not fatal.  A response frame whose id has no
\* entry in the PendingTable is logged and the session continues: nothing that
\* ends the session is put on the error channel.
C23_UnknownIdNotFatal ==
    [][UnknownResponse => (client'.errs = client.errs /\ client'.pc = "session")]_vars

\* C24: an acknowledgement timeout is not fatal.  When no response for a sent
\* message arrives within MsgAckTimeout the client posts nothing on its error
\* channel and the session goes on as it was, free to send and to receive.
C24_AckTimeoutNotFatal ==
    [][\A id \in MsgIds :
          AckTimeout(id) =>
              /\ client'.errs = client.errs
              /\ client'.pc = client.pc
              /\ client'.eof = client.eof
              /\ client'.inflight = client.inflight]_vars

\* In a session with nothing on the error channel, the waiter of a message timed
\* out while the server has yet to answer the message.
C24_Witness ==
    \E id \in MsgIds :
        /\ client.pc = "session"
        /\ client.errs = <<>>
        /\ id \in client.inflight
        /\ id \notin client.waiters

\* C25: MsgID uniqueness.  Any two identifiers getUniqueID produced in one client
\* process are different, across relog and reconnect too.
C25_MsgIDUnique ==
    \A i, j \in DOMAIN client.ids : i # j => client.ids[i].id # client.ids[j].id

\* Two identifiers were produced during two connections of the process.
C25_Witness ==
    \E i, j \in DOMAIN client.ids : client.ids[i].dial # client.ids[j].dial

\* C26: frame round trip.  For every id without separator and every payload,
\* which may hold separators, parsing r<id>;<payload> with ParseServerResponse
\* and m<id>;<text> with parseInputMsg yields exactly the id and the payload,
\* and serializing the parsed parts gives back the line.
C26_FrameRoundTrip ==
    /\ frame.stage = "parsed" =>
          /\ frame.parsed.ok
          /\ frame.parsed.id = frame.id
          /\ frame.parsed.text = frame.text
    /\ frame.stage = "serialized" => frame.out = frame.line

\* A response frame whose payload holds a separator made the round trip.
C26_Witness ==
    /\ frame.stage = "serialized"
    /\ frame.prefix = ServerResponsePrefix
    /\ \E i \in 1..Len(frame.text) : frame.text[i] = IdSeparator
    /\ frame.out = frame.line

\* C27: sessions do not leak.  Once HandleNewConnection has returned for a
\* connection (read EOF, I/O error, failed write of r;Ok), SessionSet holds no
\* entry for that connection's handler, so a later Login under the name is not
\* refused as UserAlreadyOnline for ever.
C27_NoSessionLeak ==
    \A n \in DOMAIN activeUsers : pc[activeUsers[n]] # "done"

\* Hub.Logout has been called for the handler of c: by runUserCommand, whose
\* goroutine stands between Logout and forwardCmdToUser, or by the deferred call
\* of HandleNewConnection, which has returned.
LogoutCalled(c) == quitPc[c] = "loggedOut" \/ pc[c] = "done"

\* C28: for every handler that reached LOGGED_IN, Hub.Logout is called exactly
\* once, whatever ends the session: no step calls Logout for a handler for which
\* it was called before.
C28_LogoutOnce ==
    [][\A c \in Conns : (pc[c] \in {"loggedIn", "done"} /\ CallsLogout(c)) => ~LogoutCalled(c)]_vars

\* A step runs Close on handler h for the first time, or on a handler that was
\* closed before.
ClosesHandler(h) == ~closed[h] /\ closed'[h]
ClosesAgain(h) ==
    /\ closed[h]
    /\ \E c \in Conns : /\ CallsLogout(c)
                        /\ creds[c].name \in DOMAIN activeUsers
                        /\ activeUsers[creds[c].name] = h

\* C29: every handler is closed exactly once, and only on exit from its
\* top-level routine: the step that closes a handler is the return of that
\* handler's own message loop, and no step closes a closed handler.
C29_ClosedOnceOnExit ==
    [][\A h \in Conns : /\ ClosesHandler(h) => (pc[h] = "loggedIn" /\ pc'[h] = "done")
                        /\ ~ClosesAgain(h)]_vars

\* The message that c broadcast is in the hands of the forwardMsgToUser
\* goroutine of r, or that goroutine has sent its completion signal.
InForwarder(c, r) == r \in DOMAIN tasks[c] /\ tasks[c][r].msg = "taken"
Signalled(c, r) == r \in DOMAIN tasks[c] /\ tasks[c][r].msg = "written"

\* C30: every ChatMessage placed on a handler's inbox is completed exactly once.
\* The forwarder that holds a message can always go on, whatever the state of the
\* broadcaster; a completed message is not signalled again; and every run of
\* forwardMsgToUser on a message from the inbox writes the line and signals.
C30_CompletedExactlyOnce ==
    /\ [](\A c, r \in Conns : /\ InForwarder(c, r) => ENABLED ForwardMsgToUser(c, r)
                              /\ Signalled(c, r) => ~ENABLED ForwardMsgToUser(c, r))
    /\ [][\A c, r \in Conns : ForwardMsgToUser(c, r) => WritesLine(c, r)]_vars

\* A goroutine that dispatchUserInputAsync started for a line of c calls the Hub
\* (Logout, BroadcastMessageWithTimeout), or a goroutine of the handler of c
\* writes to the stream of c.
TaskCallsHub(c) == QuitLogout(c) \/ BroadcastSnapshot(c)
TaskWrites(c) ==
    /\ ~closed[c]
    /\ \/ QuitRespond(c)
       \/ QuitForwardCmd(c)
       \/ BroadcastRespond(c)
       \/ \E d \in Conns : ForwardMsgToUser(d, c)

\* C31: first error wins.  Once handleMessagesLoop has returned with the
\* handler's terminal error, no task of the handler writes to the byte stream or
\* calls the Hub any more.
C31_FirstErrorWins ==
    [][\A c \in Conns : pc[c] = "done" => ~(TaskCallsHub(c) \/ TaskWrites(c))]_vars

\* A waiter of the client is waiting for the response to id: the message was
\* sent, the waiter has taken no response and MsgAckTimeout has not fired.
Awaited(id) == id \in client.waiters

\* C32: the table of expected responses.  An entry exists exactly for the ids
\* whose response is awaited, and every entry can be removed: its waiter can take
\* the response or the timeout.
C32_PendingTable ==
    \A id \in MsgIds :
        /\ id \in client.pending <=> Awaited(id)
        /\ id \in client.pending => ENABLED (AckTimeout(id) \/ WaiterGetsResponse(id))

\* The call is inside the Hub and has not reached delivery.
InHub(call) == call.at \in {"wantA", "wantDB", "in", "unlockA"}

\* C33: the session lock is not held across delivery.  A broadcast that waits
\* for its recipients holds none of the Hub's locks, and whenever calls are
\* inside the Hub one of them can take or release a lock without any delivery
\* ending: no call waits for a broadcast, and the two locks never deadlock.
C33_LockFreeDelivery ==
    /\ \A g \in Callers :
          hubCalls[g].at = "deliver" =>
              ~(HoldsRead(hubCalls[g]) \/ HoldsWrite(hubCalls[g]) \/ HoldsDB(hubCalls[g]))
    /\ (\E g \in Callers : InHub(hubCalls[g])) => ENABLED (\E g \in Callers : LockStep(g))

\* A logClientIn of TryToAuthenticate holds both locks while a broadcast of
\* another caller is delivering.
C33_Witness ==
    \E g, h \in Callers :
        /\ hubCalls[g].at = "deliver"
        /\ hubCalls[h] = [op |-> "logClientIn", at |-> "in"]

\* C34: quiet termination in AUTH.  When the stream ends before the three lines
\* of a request are complete, the handler terminates: no authentication is
\* decided, no response is written, UserStore and SessionSet stay as they are,
\* the server goes on, and the handler that ended so owns no session.
C34_QuietTermination ==
    /\ [][\A c \in Conns :
             AuthClientQuit(c) =>
                 /\ pc'[c] = "done"
                 /\ UNCHANGED <<userDB, activeUsers, req, creds, resp, closed>>
                 /\ panic' = NoPanic]_vars
    /\ [](\A c \in Conns :
             (pc[c] = "done" /\ creds[c] = NoCreds) =>
                 \A n \in DOMAIN activeUsers : activeUsers[n] # c)

\* A client hung up in AUTH after a rejected attempt, while another is logged in.
C34_Witness ==
    \E c, d \in Conns :
        /\ pc[c] = "done" /\ creds[c] = NoCreds /\ resp[c] # NoResponse
        /\ LoggedIn(d)
        /\ panic = NoPanic

\* The responses with which an authentication is refused.
Refusals == {ResponseInvalidCredentials, ResponseUserAlreadyOnline, ResponseUsernameExists}

\* C35: a rejected authentication changes nothing.  When the request of a
\* connection is refused, UserStore and SessionSet are after the call what they
\* were before it, and no handler exists for the connection.
C35_RejectionChangesNothing ==
    [][\A c \in Conns, request \in AuthRequests :
          (Decides(c, request) /\ testAuth(userDB, activeUsers, request) \in Refusals) =>
              /\ UNCHANGED <<userDB, activeUsers, closed>>
              /\ creds'[c] = NoCreds
              /\ pc'[c] = "auth"]_vars

\* A Login was refused for a name that is online: the refusal was given with a
\* session in place.
C35_Witness ==
    \E c \in Conns :
        /\ pc[c] = "auth"
        /\ resp[c] = ResponseUserAlreadyOnline
        /\ nRejected > 0
        /\ activeUsers # EmptyMap

\* C36: Logout affects only the caller's own session.  A Logout issued by the
\* handler of c, on exit or by its /quit command, with the process living on,
\* leaves every session of another connection in SessionSet and does not close
\* the handler of another connection.
C36_LogoutOwnSessionOnly ==
    [][\A c \in Conns :
          (CallsLogout(c) /\ panic' = NoPanic) =>
              \A d \in Conns \ {c} :
                  /\ closed'[d] = closed[d]
                  /\ \A n \in DOMAIN activeUsers :
                        activeUsers[n] = d =>
                            (n \in DOMAIN activeUsers' /\ activeUsers'[n] = d)]_vars

\* BroadcastMessageWithTimeout runs for the message of c while the name of c is
\* not in SessionSet.
BroadcastOfAbsentSender(c) == BroadcastSnapshot(c) /\ creds[c].name \notin DOMAIN activeUsers

\* C37: recipient count when the sender is absent.  The broadcast does not fail
\* on a negative count, and the number of results it expects is the number of
\* handlers in SessionSet that are to get the message, one task each.
C37_CountWithAbsentSender ==
    [][\A c \in Conns :
          BroadcastOfAbsentSender(c) =>
              /\ panic' = NoPanic
              /\ bc'[c].total = Cardinality(Recipients(activeUsers, creds[c].name))
              /\ DOMAIN tasks'[c] = Recipients(activeUsers, creds[c].name)]_vars

\* The sendMessageToClient goroutine of the broadcast of c offers its message to
\* the inbox of r.
Offers(c, r) == r \in DOMAIN tasks[c] /\ tasks[c][r].st = "sending"

C39_PositionalMatchSound ==
    [][\A id \in MsgIds \cup {EmptyId}, ok \in BOOLEAN : ~AuthTakesLeftover(id, ok)]_vars

\* C40: errors do not cross sessions on the client.  The error that an
\* authentication attempt takes from the error channel is one of the connection's
\* reader, the end of the stream, and never the error of a task of a session
\* that has ended.
C40_ErrorsStayInSession ==
    [][AuthTakesErr => Head(client.errs) = ErrEOF]_vars

====
